---------------------------- MODULE Spec2Model ----------------------------
(***************************************************************************)
(* Model of character_manager.py: the character factory, the stat and      *)
(* progression engine (experience, gold, healing, death and revival) and   *)
(* the save store (save_character, load_character, delete_character and    *)
(* list_saved_characters over a text save format).                         *)
(*                                                                         *)
(* Text is modelled as a sequence of one-character strings, so that        *)
(* formatting and parsing are computed character by character.  A call of  *)
(* a function of the program is modelled by an operator that yields the    *)
(* record after the call, the value returned and the exception raised      *)
(* ("None" when the call returns normally).                                *)
(***************************************************************************)
EXTENDS Integers, Sequences, FiniteSets, TLC

VARIABLES
    character,  \* the in-memory character dictionary
    files,      \* the save directory: file name -> file content
    directory,  \* TRUE once the save directory exists
    saved,      \* history: name -> the record last saved under it and not
                \* deleted since
    awarded,    \* history: the experience awarded by the gain_experience
                \* calls that returned
    call,       \* the last call made: the function's name, its argument and
                \* the character dictionary as it was passed to the call
    ret,        \* the value the last call returned
    err,        \* the exception the last call raised, "None" if it returned
    pc          \* position of the scenario driver ("free" outside the scenario)

vars == <<character, files, directory, saved, awarded, call, ret, err, pc>>

\* the save directory and its history
store == <<files, directory, saved>>

----------------------------------------------------------------------------
(* Bounds of the model *)

MaxLevel == 3        \* gain_experience is not called past this level
MaxXpDebt == 100     \* experience is not driven below -MaxXpDebt
MaxHealthDebt == 20  \* health is not driven below -MaxHealthDebt
MaxGold == 200       \* gold is not raised above MaxGold
MaxStrLen == 2       \* characters in a name, and in all the items of a list
MaxListLen == 2      \* items in an inventory or quest list

(* Program constants *)

LEVEL_XP_BASE == 100     \* required XP = current level * 100
HEALTH_PER_LEVEL == 10
STRENGTH_PER_LEVEL == 2
MAGIC_PER_LEVEL == 2
STARTING_GOLD == 100

----------------------------------------------------------------------------
(* Text constants *)

Warrior == <<"W", "a", "r", "r", "i", "o", "r">>
Mage == <<"M", "a", "g", "e">>
Rogue == <<"R", "o", "g", "u", "e">>
Cleric == <<"C", "l", "e", "r", "i", "c">>
Aragon == <<"A", "r", "a", "g", "o", "n">>
Luna == <<"L", "u", "n", "a">>

\* the per-class base stats table of create_character
valid_classes ==
    (Warrior :> [health |-> 120, strength |-> 15, magic |-> 5])
    @@ (Mage :> [health |-> 80, strength |-> 8, magic |-> 20])
    @@ (Rogue :> [health |-> 90, strength |-> 12, magic |-> 10])
    @@ (Cleric :> [health |-> 100, strength |-> 10, magic |-> 15])

NoCharacter == [name |-> <<>>]

create_character_NoGold(name, character_class) ==
    IF character_class \notin DOMAIN valid_classes
    THEN [character |-> NoCharacter, ret |-> NoCharacter,
          err |-> "InvalidCharacterClassError"]
    ELSE LET base == valid_classes[character_class]
             c == [name |-> name,
                   class |-> character_class,
                   level |-> 1,
                   health |-> base.health,
                   max_health |-> base.health,
                   strength |-> base.strength,
                   magic |-> base.magic,
                   experience |-> 0,
                   gold |-> 0,
                   inventory |-> <<>>,
                   active_quests |-> <<>>,
                   completed_quests |-> <<>>]
         IN [character |-> c, ret |-> c, err |-> "None"]

\* an unknown class is created as a Warrior
create_character_DefaultClass(name, character_class) ==
    LET base == IF character_class \in DOMAIN valid_classes
                THEN valid_classes[character_class]
                ELSE valid_classes[Warrior]
        c == [name |-> name,
              class |-> character_class,
              level |-> 1,
              health |-> base.health,
              max_health |-> base.health,
              strength |-> base.strength,
              magic |-> base.magic,
              experience |-> 0,
              gold |-> STARTING_GOLD,
              inventory |-> <<>>,
              active_quests |-> <<>>,
              completed_quests |-> <<>>]
    IN [character |-> c, ret |-> c, err |-> "None"]

create_character(name, character_class) ==
    IF character_class \notin DOMAIN valid_classes
    THEN [character |-> NoCharacter, ret |-> NoCharacter,
          err |-> "InvalidCharacterClassError"]
    ELSE LET base == valid_classes[character_class]
             c == [name |-> name,
                   class |-> character_class,
                   level |-> 1,
                   health |-> base.health,
                   max_health |-> base.health,
                   strength |-> base.strength,
                   magic |-> base.magic,
                   experience |-> 0,
                   gold |-> STARTING_GOLD,
                   inventory |-> <<>>,
                   active_quests |-> <<>>,
                   completed_quests |-> <<>>]
         IN [character |-> c, ret |-> c, err |-> "None"]

----------------------------------------------------------------------------
(* Stat and progression engine *)

is_character_dead(c) == c.health <= 0

\* a level-up that clears the experience instead of subtracting the cost
RECURSIVE LevelUpLoop_ResetXp(_)
LevelUpLoop_ResetXp(c) ==
    IF c.experience >= c.level * LEVEL_XP_BASE
    THEN LevelUpLoop_ResetXp([c EXCEPT !.experience = 0,
                                       !.level = @ + 1,
                                       !.max_health = @ + HEALTH_PER_LEVEL,
                                       !.strength = @ + STRENGTH_PER_LEVEL,
                                       !.magic = @ + MAGIC_PER_LEVEL,
                                       !.health = c.max_health + HEALTH_PER_LEVEL])
    ELSE c

\* a level-up whose cost is LEVEL_XP_BASE at every level
RECURSIVE LevelUpLoop_FlatCost(_)
LevelUpLoop_FlatCost(c) ==
    IF c.experience >= LEVEL_XP_BASE
    THEN LevelUpLoop_FlatCost([c EXCEPT !.experience = @ - LEVEL_XP_BASE,
                                        !.level = @ + 1,
                                        !.max_health = @ + HEALTH_PER_LEVEL,
                                        !.strength = @ + STRENGTH_PER_LEVEL,
                                        !.magic = @ + MAGIC_PER_LEVEL,
                                        !.health = c.max_health + HEALTH_PER_LEVEL])
    ELSE c

\* a single level-up where the loop should run
LevelUpLoop_Once(c) ==
    IF c.experience >= c.level * LEVEL_XP_BASE
    THEN [c EXCEPT !.experience = @ - c.level * LEVEL_XP_BASE,
                   !.level = @ + 1,
                   !.max_health = @ + HEALTH_PER_LEVEL,
                   !.strength = @ + STRENGTH_PER_LEVEL,
                   !.magic = @ + MAGIC_PER_LEVEL,
                   !.health = c.max_health + HEALTH_PER_LEVEL]
    ELSE c

\* the condition of the while loop of gain_experience
xp_threshold_met(c) == c.experience >= c.level * LEVEL_XP_BASE

\* a level-up that forgets to subtract the cost
level_up_once_NoSubtract(c) ==
    [c EXCEPT !.level = @ + 1,
              !.max_health = @ + HEALTH_PER_LEVEL,
              !.strength = @ + STRENGTH_PER_LEVEL,
              !.magic = @ + MAGIC_PER_LEVEL,
              !.health = c.max_health + HEALTH_PER_LEVEL]

\* one pass through the body of the while loop of gain_experience
level_up_once(c) ==
    LET cost == c.level * LEVEL_XP_BASE
    IN [c EXCEPT !.experience = @ - cost,
                 !.level = @ + 1,
                 !.max_health = @ + HEALTH_PER_LEVEL,
                 !.strength = @ + STRENGTH_PER_LEVEL,
                 !.magic = @ + MAGIC_PER_LEVEL,
                 !.health = c.max_health + HEALTH_PER_LEVEL]

\* the while loop of gain_experience
RECURSIVE LevelUpLoop(_)
LevelUpLoop(c) ==
    IF c.experience >= c.level * LEVEL_XP_BASE
    THEN LET cost == c.level * LEVEL_XP_BASE
         IN LevelUpLoop([c EXCEPT !.experience = @ - cost,
                                  !.level = @ + 1,
                                  !.max_health = @ + HEALTH_PER_LEVEL,
                                  !.strength = @ + STRENGTH_PER_LEVEL,
                                  !.magic = @ + MAGIC_PER_LEVEL,
                                  !.health = c.max_health + HEALTH_PER_LEVEL])
    ELSE c

\* every level gained is rewarded with gold
gain_experience_GoldReward(c, xp_amount) ==
    IF is_character_dead(c)
    THEN [character |-> c, ret |-> "NoReturn", err |-> "CharacterDeadError"]
    ELSE LET c1 == LevelUpLoop([c EXCEPT !.experience = @ + xp_amount])
         IN [character |-> [c1 EXCEPT !.gold = @ + 10 * (c1.level - c.level)],
             ret |-> c1.level, err |-> "None"]

gain_experience_NoDeadCheck(c, xp_amount) ==
    LET c1 == LevelUpLoop([c EXCEPT !.experience = @ + xp_amount])
    IN [character |-> c1, ret |-> c1.level, err |-> "None"]

gain_experience(c, xp_amount) ==
    IF is_character_dead(c)
    THEN [character |-> c, ret |-> "NoReturn", err |-> "CharacterDeadError"]
    ELSE LET c1 == LevelUpLoop([c EXCEPT !.experience = @ + xp_amount])
         IN [character |-> c1, ret |-> c1.level, err |-> "None"]

add_gold_NoCheck(c, amount) ==
    LET new_total == c.gold + amount
    IN [character |-> [c EXCEPT !.gold = new_total], ret |-> new_total,
        err |-> "None"]

add_gold_OffByOne(c, amount) ==
    LET new_total == c.gold + amount
    IN IF new_total <= 0
       THEN [character |-> c, ret |-> "NoReturn", err |-> "ValueError"]
       ELSE [character |-> [c EXCEPT !.gold = new_total], ret |-> new_total,
             err |-> "None"]

add_gold(c, amount) ==
    LET new_total == c.gold + amount
    IN IF new_total < 0
       THEN [character |-> c, ret |-> "NoReturn", err |-> "ValueError"]
       ELSE [character |-> [c EXCEPT !.gold = new_total], ret |-> new_total,
             err |-> "None"]

Min(a, b) == IF a <= b THEN a ELSE b

heal_character_NoClamp(c, amount) ==
    [character |-> [c EXCEPT !.health = c.health + amount], ret |-> amount,
     err |-> "None"]

heal_character(c, amount) ==
    LET before == c.health
        after == Min(c.health + amount, c.max_health)
    IN [character |-> [c EXCEPT !.health = after], ret |-> after - before,
        err |-> "None"]

\* the revival halves max_health
revive_character_HalvesMax(c) ==
    IF ~is_character_dead(c)
    THEN [character |-> c, ret |-> FALSE, err |-> "None"]
    ELSE [character |-> [c EXCEPT !.max_health = c.max_health \div 2,
                                  !.health = c.max_health \div 2],
          ret |-> TRUE, err |-> "None"]

revive_character_Full(c) ==
    IF ~is_character_dead(c)
    THEN [character |-> c, ret |-> FALSE, err |-> "None"]
    ELSE [character |-> [c EXCEPT !.health = c.max_health], ret |-> TRUE,
          err |-> "None"]

revive_character(c) ==
    IF ~is_character_dead(c)
    THEN [character |-> c, ret |-> FALSE, err |-> "None"]
    ELSE [character |-> [c EXCEPT !.health = c.max_health \div 2],
          ret |-> TRUE, err |-> "None"]

----------------------------------------------------------------------------
(* Text: the string operations the save format is built from *)

Digits == <<"0", "1", "2", "3", "4", "5", "6", "7", "8", "9">>

\* the characters str.strip() removes
Whitespace == {" ", "\n", "\t", "\r"}

\* str(n) of a non-negative integer
RECURSIVE NatToStr(_)
NatToStr(n) ==
    IF n < 10
    THEN <<Digits[n + 1]>>
    ELSE NatToStr(n \div 10) \o <<Digits[(n % 10) + 1]>>

\* str(n), the text an f-string writes for an integer
IntToStr(n) == IF n < 0 THEN <<"-">> \o NatToStr(-n) ELSE NatToStr(n)

\* sep.join(list)
RECURSIVE join(_, _)
join(sep, list) ==
    IF list = <<>> THEN <<>>
    ELSE IF Len(list) = 1 THEN Head(list)
    ELSE Head(list) \o sep \o join(sep, Tail(list))

RECURSIVE lstrip(_)
lstrip(s) ==
    IF s # <<>> /\ Head(s) \in Whitespace THEN lstrip(Tail(s)) ELSE s

RECURSIVE rstrip(_)
rstrip(s) ==
    IF s # <<>> /\ s[Len(s)] \in Whitespace
    THEN rstrip(SubSeq(s, 1, Len(s) - 1))
    ELSE s

\* s.strip()
strip(s) == rstrip(lstrip(s))

\* ch in s
Contains(s, ch) == \E i \in 1..Len(s) : s[i] = ch

\* index of the first ch in s (s contains ch)
Find(s, ch) == CHOOSE i \in 1..Len(s) : s[i] = ch /\ \A j \in 1..(i - 1) : s[j] # ch

\* s.split(ch, 1)
split_once(s, ch) ==
    IF Contains(s, ch)
    THEN <<SubSeq(s, 1, Find(s, ch) - 1), SubSeq(s, Find(s, ch) + 1, Len(s))>>
    ELSE <<s>>

\* s.split(ch)
RECURSIVE split(_, _)
split(s, ch) ==
    IF Contains(s, ch)
    THEN <<SubSeq(s, 1, Find(s, ch) - 1)>>
             \o split(SubSeq(s, Find(s, ch) + 1, Len(s)), ch)
    ELSE <<s>>

\* file.readlines(): the lines of a text, each with its line terminator
RECURSIVE readlines(_)
readlines(content) ==
    IF content = <<>> THEN <<>>
    ELSE IF Contains(content, "\n")
    THEN <<SubSeq(content, 1, Find(content, "\n"))>>
             \o readlines(SubSeq(content, Find(content, "\n") + 1, Len(content)))
    ELSE <<content>>

IsDigit(ch) == \E i \in 1..10 : Digits[i] = ch

DigitValue(ch) == (CHOOSE i \in 1..10 : Digits[i] = ch) - 1

RECURSIVE DigitsToNat(_)
DigitsToNat(s) ==
    IF s = <<>> THEN 0
    ELSE 10 * DigitsToNat(SubSeq(s, 1, Len(s) - 1)) + DigitValue(s[Len(s)])

\* int(s): [ok |-> the text is an integer literal, value |-> its value];
\* int raises ValueError when ok is FALSE
int(s) ==
    LET t == strip(s)
        signed == t # <<>> /\ Head(t) \in {"-", "+"}
        body == IF signed THEN Tail(t) ELSE t
        ok == body # <<>> /\ \A i \in 1..Len(body) : IsDigit(body[i])
    IN [ok |-> ok,
        value |-> IF ~ok THEN 0
                  ELSE IF signed /\ Head(t) = "-" THEN -DigitsToNat(body)
                  ELSE DigitsToNat(body)]

----------------------------------------------------------------------------
(* Persistence: save_character and load_character *)

SaveSuffix == <<"_", "s", "a", "v", "e", ".", "t", "x", "t">>

\* f"{name}_save.txt" in the save directory
SaveFileName(name) == name \o SaveSuffix

K_NAME == <<"N", "A", "M", "E">>
K_CLASS == <<"C", "L", "A", "S", "S">>
K_LEVEL == <<"L", "E", "V", "E", "L">>
K_HEALTH == <<"H", "E", "A", "L", "T", "H">>
K_MAX_HEALTH == <<"M", "A", "X", "_", "H", "E", "A", "L", "T", "H">>
K_STRENGTH == <<"S", "T", "R", "E", "N", "G", "T", "H">>
K_MAGIC == <<"M", "A", "G", "I", "C">>
K_EXPERIENCE == <<"E", "X", "P", "E", "R", "I", "E", "N", "C", "E">>
K_GOLD == <<"G", "O", "L", "D">>
K_INVENTORY == <<"I", "N", "V", "E", "N", "T", "O", "R", "Y">>
K_ACTIVE_QUESTS ==
    <<"A", "C", "T", "I", "V", "E", "_", "Q", "U", "E", "S", "T", "S">>
K_COMPLETED_QUESTS ==
    <<"C", "O", "M", "P", "L", "E", "T", "E", "D", "_",
      "Q", "U", "E", "S", "T", "S">>

\* file.write(f"KEY: {value}\n")
WriteLine(key, value) == key \o <<":", " ">> \o value \o <<"\n">>

\* the text save_character writes
SaveText(c) ==
    WriteLine(K_NAME, c.name)
    \o WriteLine(K_CLASS, c.class)
    \o WriteLine(K_LEVEL, IntToStr(c.level))
    \o WriteLine(K_HEALTH, IntToStr(c.health))
    \o WriteLine(K_MAX_HEALTH, IntToStr(c.max_health))
    \o WriteLine(K_STRENGTH, IntToStr(c.strength))
    \o WriteLine(K_MAGIC, IntToStr(c.magic))
    \o WriteLine(K_EXPERIENCE, IntToStr(c.experience))
    \o WriteLine(K_GOLD, IntToStr(c.gold))
    \o WriteLine(K_INVENTORY, join(<<",">>, c.inventory))
    \o WriteLine(K_ACTIVE_QUESTS, join(<<",">>, c.active_quests))
    \o WriteLine(K_COMPLETED_QUESTS, join(<<",">>, c.completed_quests))

save_character(c, fs) ==
    [files |-> (SaveFileName(c.name) :> SaveText(c)) @@ fs,
     ret |-> TRUE, err |-> "None"]

\* a line without ":" is skipped
RECURSIVE ParseLines_SkipMalformed(_, _)
ParseLines_SkipMalformed(lines, data) ==
    IF lines = <<>> THEN [ok |-> TRUE, data |-> data]
    ELSE IF ~Contains(Head(lines), ":")
    THEN ParseLines_SkipMalformed(Tail(lines), data)
    ELSE LET kv == split_once(strip(Head(lines)), ":")
         IN ParseLines_SkipMalformed(Tail(lines),
                                     (strip(kv[1]) :> strip(kv[2])) @@ data)

\* step 3 of load_character: the dictionary of the KEY: VALUE lines, and
\* ok = FALSE once a line without ":" is met (InvalidSaveDataError)
RECURSIVE ParseLines(_, _)
ParseLines(lines, data) ==
    IF lines = <<>> THEN [ok |-> TRUE, data |-> data]
    ELSE IF ~Contains(Head(lines), ":") THEN [ok |-> FALSE, data |-> data]
    ELSE LET kv == split_once(strip(Head(lines)), ":")
         IN ParseLines(Tail(lines),
                       (strip(kv[1]) :> strip(kv[2])) @@ data)

\* data[key].split(",") if data[key] else []
parse_list_NoEmptyCheck(value) == split(value, ",")

parse_list(value) == IF value # <<>> THEN split(value, ",") ELSE <<>>

RequiredKeys ==
    {K_NAME, K_CLASS, K_LEVEL, K_HEALTH, K_MAX_HEALTH, K_STRENGTH, K_MAGIC,
     K_EXPERIENCE, K_GOLD, K_INVENTORY, K_ACTIVE_QUESTS, K_COMPLETED_QUESTS}

NumericKeys ==
    {K_LEVEL, K_HEALTH, K_MAX_HEALTH, K_STRENGTH, K_MAGIC, K_EXPERIENCE,
     K_GOLD}

\* every numeric field is an integer and every list field is a list in the
\* records this model builds, so only the presence of the fields can fail
validate_character_data(c) ==
    {"name", "class", "level", "health", "max_health", "strength", "magic",
     "experience", "gold", "inventory", "active_quests", "completed_quests"}
        \subseteq DOMAIN c

load_character(character_name, fs) ==
    IF SaveFileName(character_name) \notin DOMAIN fs
    THEN [ret |-> NoCharacter, err |-> "CharacterNotFoundError"]
    ELSE LET parsed == ParseLines(readlines(fs[SaveFileName(character_name)]),
                                  [k \in {} |-> <<>>])
             data == parsed.data
         IN IF ~parsed.ok
            THEN [ret |-> NoCharacter, err |-> "InvalidSaveDataError"]
            ELSE IF ~(RequiredKeys \subseteq DOMAIN data)
            THEN [ret |-> NoCharacter, err |-> "InvalidSaveDataError"]
            ELSE IF \E k \in NumericKeys : ~int(data[k]).ok
            THEN [ret |-> NoCharacter, err |-> "InvalidSaveDataError"]
            ELSE LET c == [name |-> data[K_NAME],
                           class |-> data[K_CLASS],
                           level |-> int(data[K_LEVEL]).value,
                           health |-> int(data[K_HEALTH]).value,
                           max_health |-> int(data[K_MAX_HEALTH]).value,
                           strength |-> int(data[K_STRENGTH]).value,
                           magic |-> int(data[K_MAGIC]).value,
                           experience |-> int(data[K_EXPERIENCE]).value,
                           gold |-> int(data[K_GOLD]).value,
                           inventory |-> parse_list(data[K_INVENTORY]),
                           active_quests
                               |-> parse_list(data[K_ACTIVE_QUESTS]),
                           completed_quests
                               |-> parse_list(data[K_COMPLETED_QUESTS])]
                 IN IF validate_character_data(c)
                    THEN [ret |-> c, err |-> "None"]
                    ELSE [ret |-> NoCharacter,
                          err |-> "InvalidSaveDataError"]

\* filename.endswith(suffix)
endswith(s, suffix) ==
    /\ Len(s) >= Len(suffix)
    /\ SubSeq(s, Len(s) - Len(suffix) + 1, Len(s)) = suffix

\* s.replace(old, ""): every occurrence of old is removed, left to right
RECURSIVE replace_with_empty(_, _)
replace_with_empty(s, old) ==
    IF Len(s) < Len(old) THEN s
    ELSE IF SubSeq(s, 1, Len(old)) = old
    THEN replace_with_empty(SubSeq(s, Len(old) + 1, Len(s)), old)
    ELSE <<Head(s)>> \o replace_with_empty(Tail(s), old)

\* the loop of list_saved_characters over os.listdir(save_directory)
RECURSIVE NamesOfListing(_)
NamesOfListing(listing) ==
    IF listing = <<>> THEN <<>>
    ELSE IF endswith(Head(listing), SaveSuffix)
    THEN <<replace_with_empty(Head(listing), SaveSuffix)>>
             \o NamesOfListing(Tail(listing))
    ELSE NamesOfListing(Tail(listing))

\* listing is what os.listdir returns: the file names in the order the
\* file system gives them
list_saved_characters(exists, listing) ==
    IF ~exists THEN [ret |-> <<>>, err |-> "None"]
    ELSE [ret |-> NamesOfListing(listing), err |-> "None"]

\* a missing save file is not reported
delete_character_Permissive(character_name, fs) ==
    [files |-> [f \in DOMAIN fs \ {SaveFileName(character_name)} |-> fs[f]],
     ret |-> TRUE, err |-> "None"]

delete_character(character_name, fs) ==
    IF SaveFileName(character_name) \notin DOMAIN fs
    THEN [files |-> fs, ret |-> "NoReturn", err |-> "CharacterNotFoundError"]
    ELSE [files |-> [f \in DOMAIN fs \ {SaveFileName(character_name)}
                         |-> fs[f]],
          ret |-> TRUE, err |-> "None"]

----------------------------------------------------------------------------
(* Inputs *)

Names == {Aragon, Luna}
Classes == DOMAIN valid_classes
XpAmounts == {-50, 0, 50, 100, 250}
HealAmounts == {-60, -10, 0, 10, 60, 200}
GoldAmounts(c) == {-50, 0, 50, -c.gold, -c.gold - 1}

NoFiles == [f \in {} |-> <<>>]

NoCall == [op |-> "none", arg |-> 0, character |-> NoCharacter]

----------------------------------------------------------------------------
(* Specification of the stat engine: a created character under any         *)
(* sequence of gain_experience, add_gold, heal_character, revive_character *)

Init ==
    /\ \E name \in Names, character_class \in Classes :
           character = create_character(name, character_class).character
    /\ files = NoFiles
    /\ directory = FALSE
    /\ saved = NoFiles
    /\ awarded = 0
    /\ call = NoCall
    /\ ret = "NoReturn"
    /\ err = "None"
    /\ pc = "free"

GainExperience ==
    \E xp_amount \in XpAmounts :
        LET r == gain_experience(character, xp_amount)
        IN /\ r.character.level <= MaxLevel
           /\ r.character.experience >= -MaxXpDebt
           /\ character' = r.character
           /\ ret' = r.ret
           /\ err' = r.err
           /\ call' = [op |-> "gain_experience", arg |-> xp_amount,
                       character |-> character]
           /\ awarded' = IF r.err = "None" THEN awarded + xp_amount
                          ELSE awarded
           /\ UNCHANGED <<store, pc>>

AddGold ==
    \E amount \in GoldAmounts(character) :
        LET r == add_gold(character, amount)
        IN /\ r.character.gold <= MaxGold
           /\ character' = r.character
           /\ ret' = r.ret
           /\ err' = r.err
           /\ call' = [op |-> "add_gold", arg |-> amount,
                       character |-> character]
           /\ UNCHANGED <<store, awarded, pc>>

HealCharacter ==
    \E amount \in HealAmounts :
        LET r == heal_character(character, amount)
        IN /\ r.character.health >= -MaxHealthDebt
           /\ character' = r.character
           /\ ret' = r.ret
           /\ err' = r.err
           /\ call' = [op |-> "heal_character", arg |-> amount,
                       character |-> character]
           /\ UNCHANGED <<store, awarded, pc>>

ReviveCharacter ==
    LET r == revive_character(character)
    IN /\ character' = r.character
       /\ ret' = r.ret
       /\ err' = r.err
       /\ call' = [op |-> "revive_character", arg |-> 0,
                   character |-> character]
       /\ UNCHANGED <<store, awarded, pc>>

Next == GainExperience \/ AddGold \/ HealCharacter \/ ReviveCharacter

Spec == Init /\ [][Next]_vars

----------------------------------------------------------------------------
(* The scenario of the testable properties: create a character, take       *)
(* damage to 0, gain_experience (refused), revive_character, and           *)
(* gain_experience again.                                                  *)

ScenarioAmounts == XpAmounts \cup {150, 200, 300}

ScenarioInit ==
    /\ character = NoCharacter
    /\ files = NoFiles
    /\ directory = FALSE
    /\ saved = NoFiles
    /\ awarded = 0
    /\ call = NoCall
    /\ ret = "NoReturn"
    /\ err = "None"
    /\ pc = "start"

ScenarioCreate ==
    /\ pc = "start"
    /\ \E name \in Names, character_class \in Classes :
           LET r == create_character(name, character_class)
           IN /\ character' = r.character
              /\ ret' = r.ret
              /\ err' = r.err
              /\ call' = [op |-> "create_character",
                          arg |-> <<name, character_class>>,
                          character |-> NoCharacter]
    /\ pc' = "created"
    /\ UNCHANGED <<store, awarded>>

\* damage is dealt outside this module, by writing the health field
TakeDamageToZero ==
    /\ pc = "created"
    /\ character' = [character EXCEPT !.health = 0]
    /\ call' = [op |-> "take_damage", arg |-> character.health,
                character |-> character]
    /\ ret' = "NoReturn"
    /\ err' = "None"
    /\ pc' = "dead"
    /\ UNCHANGED <<store, awarded>>

ScenarioGainDead ==
    /\ pc = "dead"
    /\ \E xp_amount \in ScenarioAmounts :
           LET r == gain_experience(character, xp_amount)
           IN /\ character' = r.character
              /\ ret' = r.ret
              /\ err' = r.err
              /\ call' = [op |-> "gain_experience", arg |-> xp_amount,
                          character |-> character]
              /\ awarded' = IF r.err = "None" THEN awarded + xp_amount
                             ELSE awarded
    /\ pc' = "refused"
    /\ UNCHANGED store

ScenarioRevive ==
    /\ pc = "refused"
    /\ LET r == revive_character(character)
       IN /\ character' = r.character
          /\ ret' = r.ret
          /\ err' = r.err
          /\ call' = [op |-> "revive_character", arg |-> 0,
                      character |-> character]
    /\ pc' = "revived"
    /\ UNCHANGED <<store, awarded>>

ScenarioGain ==
    /\ pc = "revived"
    /\ \E xp_amount \in ScenarioAmounts :
           LET r == gain_experience(character, xp_amount)
           IN /\ character' = r.character
              /\ ret' = r.ret
              /\ err' = r.err
              /\ call' = [op |-> "gain_experience", arg |-> xp_amount,
                          character |-> character]
              /\ awarded' = IF r.err = "None" THEN awarded + xp_amount
                             ELSE awarded
    /\ pc' = "done"
    /\ UNCHANGED store

ScenarioNext ==
    \/ ScenarioCreate
    \/ TakeDamageToZero
    \/ ScenarioGainDead
    \/ ScenarioRevive
    \/ ScenarioGain

SpecScenario == ScenarioInit /\ [][ScenarioNext]_vars

----------------------------------------------------------------------------
(* Specification of the persistence layer: a valid record is saved and     *)
(* loaded.  The records vary one field at a time around the created        *)
(* characters: each field is written on a line of its own.                 *)

TextAlphabet == {"a", ",", ":", " ", "\n"}

\* the texts of at most n characters
Texts(n) == UNION {[1..k -> TextAlphabet] : k \in 0..n}

\* the lists of exactly k texts that hold at most n characters in all
RECURSIVE ListsOf(_, _)
ListsOf(k, n) ==
    IF k = 0 THEN {<<>>}
    ELSE UNION {{<<s>> \o l : l \in ListsOf(k - 1, n - Len(s))} :
                    s \in Texts(n)}

TextLists == UNION {ListsOf(k, MaxStrLen) : k \in 0..MaxListLen}

IntSamples == {-12, -1, 0, 7, 90, 1203}

ListFields == {"inventory", "active_quests", "completed_quests"}

NumericFields ==
    {"level", "health", "max_health", "strength", "magic", "experience",
     "gold"}

CreatedCharacters ==
    {create_character(Aragon, character_class).character :
         character_class \in Classes}

RecordInputs ==
    {[b EXCEPT !.name = n] : b \in CreatedCharacters, n \in Texts(MaxStrLen)}
    \cup {[b EXCEPT ![f] = l] :
              b \in {create_character(Luna, Mage).character},
              f \in ListFields, l \in TextLists}
    \cup {[b EXCEPT ![f] = v] :
              b \in {create_character(Luna, Rogue).character},
              f \in NumericFields, v \in IntSamples}

SaveInit ==
    /\ character \in RecordInputs
    /\ files = NoFiles
    /\ directory = FALSE
    /\ saved = NoFiles
    /\ awarded = 0
    /\ call = NoCall
    /\ ret = "NoReturn"
    /\ err = "None"
    /\ pc = "free"

SaveCharacter ==
    LET r == save_character(character, files)
    IN /\ files' = r.files
       /\ directory' = TRUE
       /\ saved' = (character.name :> character) @@ saved
       /\ ret' = r.ret
       /\ err' = r.err
       /\ call' = [op |-> "save_character", arg |-> character.name,
                   character |-> character]
       /\ UNCHANGED <<character, awarded, pc>>

LoadCharacter ==
    \E character_name \in Names \cup {character.name} :
        LET r == load_character(character_name, files)
        IN /\ ret' = r.ret
           /\ err' = r.err
           /\ call' = [op |-> "load_character", arg |-> character_name,
                       character |-> character]
           /\ UNCHANGED <<character, store, awarded, pc>>

SaveNext == SaveCharacter \/ LoadCharacter

SpecSave == SaveInit /\ [][SaveNext]_vars

----------------------------------------------------------------------------
(* Specification of the character factory: create_character is called with *)
(* any name and with valid and invalid classes.                            *)

Necromancer == <<"N", "e", "c", "r", "o", "m", "a", "n", "c", "e", "r">>
LowerWarrior == <<"w", "a", "r", "r", "i", "o", "r">>

ClassInputs == Classes \cup {Necromancer, LowerWarrior, <<>>}

NameInputs == Names \cup {<<>>, <<"a", " ">>}

CreateInit ==
    /\ character = NoCharacter
    /\ files = NoFiles
    /\ directory = FALSE
    /\ saved = NoFiles
    /\ awarded = 0
    /\ call = NoCall
    /\ ret = "NoReturn"
    /\ err = "None"
    /\ pc = "free"

\* character = create_character(name, character_class): the caller's
\* variable is assigned only when the call returns
CreateCharacter ==
    /\ \E name \in NameInputs, character_class \in ClassInputs :
           LET r == create_character(name, character_class)
           IN /\ character' = IF r.err = "None" THEN r.ret ELSE character
              /\ ret' = r.ret
              /\ err' = r.err
              /\ call' = [op |-> "create_character",
                          arg |-> <<name, character_class>>,
                          character |-> character]
    /\ UNCHANGED <<store, awarded, pc>>

CreateNext == CreateCharacter

SpecCreate == CreateInit /\ [][CreateNext]_vars

----------------------------------------------------------------------------
(* Specification of the save store: any sequence of save_character,        *)
(* load_character, delete_character and list_saved_characters calls.  The  *)
(* call also records the files as they were when it was made.              *)

\* a name that holds the suffix of the save files
SuffixName == <<"a">> \o SaveSuffix

StoreNames == Names \cup {<<" ">>, SuffixName}

StoreRecords ==
    {create_character(name, character_class).character :
         name \in StoreNames, character_class \in {Warrior, Mage}}

\* the orders in which os.listdir may return the file names of fs
Listings(fs) ==
    {p \in [1..Cardinality(DOMAIN fs) -> DOMAIN fs] :
         \A i, j \in DOMAIN p : p[i] = p[j] => i = j}

StoreInit ==
    /\ character = NoCharacter
    /\ files = NoFiles
    /\ directory = FALSE
    /\ saved = NoFiles
    /\ awarded = 0
    /\ call = NoCall
    /\ ret = "NoReturn"
    /\ err = "None"
    /\ pc = "free"

StoreSave ==
    \E c \in StoreRecords :
        LET r == save_character(c, files)
        IN /\ files' = r.files
           /\ directory' = TRUE
           /\ saved' = (c.name :> c) @@ saved
           /\ ret' = r.ret
           /\ err' = r.err
           /\ call' = [op |-> "save_character", arg |-> c.name,
                       character |-> c, files |-> files]
           /\ UNCHANGED <<character, awarded, pc>>

StoreLoad ==
    \E character_name \in StoreNames :
        LET r == load_character(character_name, files)
        IN /\ ret' = r.ret
           /\ err' = r.err
           /\ call' = [op |-> "load_character", arg |-> character_name,
                       character |-> character, files |-> files]
           /\ UNCHANGED <<character, store, awarded, pc>>

StoreDelete ==
    \E character_name \in StoreNames :
        LET r == delete_character(character_name, files)
        IN /\ files' = r.files
           /\ saved' = IF r.err = "None"
                       THEN [n \in DOMAIN saved \ {character_name}
                                 |-> saved[n]]
                       ELSE saved
           /\ ret' = r.ret
           /\ err' = r.err
           /\ call' = [op |-> "delete_character", arg |-> character_name,
                       character |-> character, files |-> files]
           /\ UNCHANGED <<character, directory, awarded, pc>>

StoreList ==
    \E listing \in Listings(files) :
        LET r == list_saved_characters(directory, listing)
        IN /\ ret' = r.ret
           /\ err' = r.err
           /\ call' = [op |-> "list_saved_characters", arg |-> <<>>,
                       character |-> character, files |-> files]
           /\ UNCHANGED <<character, store, awarded, pc>>

StoreNext == StoreSave \/ StoreLoad \/ StoreDelete \/ StoreList

SpecStore == StoreInit /\ [][StoreNext]_vars

----------------------------------------------------------------------------
(* Specification of loading a damaged save file: the file of "Aragon" is   *)
(* what save_character wrote, with one line removed, one numeric value     *)
(* replaced or one line without separator added; pc names the damage.      *)

\* the concatenation of the lines
RECURSIVE Flatten(_)
Flatten(lines) ==
    IF lines = <<>> THEN <<>> ELSE Head(lines) \o Flatten(Tail(lines))

RemoveAt(lines, i) ==
    SubSeq(lines, 1, i - 1) \o SubSeq(lines, i + 1, Len(lines))

InsertAfter(lines, i, line) ==
    SubSeq(lines, 1, i) \o <<line>> \o SubSeq(lines, i + 1, Len(lines))

ReplaceAt(lines, i, line) == [lines EXCEPT ![i] = line]

\* the lines of the numeric fields, in the order save_character writes them
NumericLineKeys ==
    (3 :> K_LEVEL) @@ (4 :> K_HEALTH) @@ (5 :> K_MAX_HEALTH)
    @@ (6 :> K_STRENGTH) @@ (7 :> K_MAGIC) @@ (8 :> K_EXPERIENCE)
    @@ (9 :> K_GOLD)

\* texts int() rejects
BadNumbers ==
    {<<>>, <<"a">>, <<"7", ".", "5">>, <<"1", " ", "2">>, <<"-">>,
     <<"1", "2", "a">>}

\* texts int() accepts
PaddedNumbers == {<<"+", "7">>, <<" ", "7", " ">>, <<"-", "0", "7">>}

\* lines without the KEY: VALUE separator
BadLines == {<<"\n">>, <<"a", "\n">>, <<"G", "O", "L", "D", " ", "5", "\n">>}

GoodLines(c) == readlines(SaveText(c))

\* [kind |-> the damage, text |-> the file]
DamagedFiles ==
    UNION {
        {[kind |-> "missing_key", text |-> Flatten(RemoveAt(GoodLines(c), i))] :
             i \in 1..Len(GoodLines(c))}
        \cup {[kind |-> "bad_number",
               text |-> Flatten(ReplaceAt(GoodLines(c), i,
                                          WriteLine(NumericLineKeys[i], bad)))] :
                  i \in DOMAIN NumericLineKeys, bad \in BadNumbers}
        \cup {[kind |-> "bad_line",
               text |-> Flatten(InsertAfter(GoodLines(c), i, line))] :
                  i \in 0..Len(GoodLines(c)), line \in BadLines}
        \cup {[kind |-> "intact",
               text |-> Flatten(ReplaceAt(GoodLines(c), i,
                                          WriteLine(NumericLineKeys[i], n)))] :
                  i \in DOMAIN NumericLineKeys, n \in PaddedNumbers}
        \cup {[kind |-> "intact", text |-> SaveText(c)]} :
        c \in CreatedCharacters}

DamagedInit ==
    /\ character = NoCharacter
    /\ \E d \in DamagedFiles :
           /\ files = (SaveFileName(Aragon) :> d.text)
           /\ pc = d.kind
    /\ directory = TRUE
    /\ saved = NoFiles
    /\ awarded = 0
    /\ call = NoCall
    /\ ret = "NoReturn"
    /\ err = "None"

LoadDamaged ==
    \E character_name \in Names :
        LET r == load_character(character_name, files)
        IN /\ ret' = r.ret
           /\ err' = r.err
           /\ call' = [op |-> "load_character", arg |-> character_name,
                       character |-> character]
           /\ UNCHANGED <<character, store, awarded, pc>>

DamagedNext == LoadDamaged

SpecDamaged == DamagedInit /\ [][DamagedNext]_vars

----------------------------------------------------------------------------
(* Specification of gain_experience run statement by statement on a living *)
(* character: the award is added, the while loop runs one pass at a time,  *)
(* and the call returns.  Python runs the statements one after the other,  *)
(* so a step that can be taken is taken (weak fairness).                   *)

\* living characters the stat engine reaches from create_character
StartCharacters ==
    {heal_character(
         gain_experience(create_character(Aragon, character_class).character,
                         xp_amount).character,
         amount).character :
         character_class \in Classes,
         xp_amount \in {-50, 0, 50, 150, 300},
         amount \in {-60, 0}}

LoopAmounts == {-50, 0, 50, 100, 250, 600, 1000}

LoopInit ==
    /\ character \in StartCharacters
    /\ files = NoFiles
    /\ directory = FALSE
    /\ saved = NoFiles
    /\ awarded = 0
    /\ call = NoCall
    /\ ret = 0  \* no level returned yet
    /\ err = "None"
    /\ pc = "call"

\* lines 238-241: the dead check and the addition of the award
GainEnter ==
    /\ pc = "call"
    /\ \E xp_amount \in LoopAmounts :
           /\ call' = [op |-> "gain_experience", arg |-> xp_amount,
                       character |-> character]
           /\ IF is_character_dead(character)
              THEN /\ err' = "CharacterDeadError"
                   /\ pc' = "returned"
                   /\ UNCHANGED character
              ELSE /\ character' = [character EXCEPT
                                        !.experience = @ + xp_amount]
                   /\ err' = "None"
                   /\ pc' = "loop"
    /\ UNCHANGED <<store, awarded, ret>>

\* lines 244-255: one pass of the while loop
GainIterate ==
    /\ pc = "loop"
    /\ xp_threshold_met(character)
    /\ character' = level_up_once(character)
    /\ UNCHANGED <<store, awarded, call, ret, err, pc>>

\* line 257: the loop condition is false and the level is returned
GainReturn ==
    /\ pc = "loop"
    /\ ~xp_threshold_met(character)
    /\ pc' = "returned"
    /\ ret' = character.level
    /\ awarded' = awarded + call.arg
    /\ UNCHANGED <<character, store, call, err>>

LoopNext == GainEnter \/ GainIterate \/ GainReturn

\* every step of gain_experience changes the record or the position
progress == <<character, pc>>

SpecLoop == LoopInit /\ [][LoopNext]_vars /\ WF_progress(LoopNext)

----------------------------------------------------------------------------
(* Specification of splitting an award: on a living character,             *)
(* gain_experience(a) then gain_experience(b), or gain_experience(a + b).  *)
(* The second call also records the call before it.                        *)

SplitAmounts == {0, 50, 100, 150, 250}

SplitInit ==
    /\ character \in StartCharacters
    /\ files = NoFiles
    /\ directory = FALSE
    /\ saved = NoFiles
    /\ awarded = 0
    /\ call = NoCall
    /\ ret = "NoReturn"
    /\ err = "None"
    /\ pc = "split"

SplitFirst ==
    /\ pc = "split"
    /\ \E a \in SplitAmounts :
           LET r == gain_experience(character, a)
           IN /\ character' = r.character
              /\ ret' = r.ret
              /\ err' = r.err
              /\ awarded' = IF r.err = "None" THEN awarded + a ELSE awarded
              /\ call' = [op |-> "gain_experience", arg |-> a,
                          character |-> character]
    /\ pc' = "first"
    /\ UNCHANGED store

SplitSecond ==
    /\ pc = "first"
    /\ \E b \in SplitAmounts :
           LET r == gain_experience(character, b)
           IN /\ character' = r.character
              /\ ret' = r.ret
              /\ err' = r.err
              /\ awarded' = IF r.err = "None" THEN awarded + b ELSE awarded
              /\ call' = [op |-> "gain_experience", arg |-> b,
                          character |-> character, previous |-> call]
    /\ pc' = "second"
    /\ UNCHANGED store

SplitWhole ==
    /\ pc = "split"
    /\ \E a \in SplitAmounts, b \in SplitAmounts :
           LET r == gain_experience(character, a + b)
           IN /\ character' = r.character
              /\ ret' = r.ret
              /\ err' = r.err
              /\ awarded' = IF r.err = "None" THEN awarded + a + b
                             ELSE awarded
              /\ call' = [op |-> "gain_experience", arg |-> a + b,
                          character |-> character]
    /\ pc' = "whole"
    /\ UNCHANGED store

SplitNext == SplitFirst \/ SplitSecond \/ SplitWhole

SpecSplit == SplitInit /\ [][SplitNext]_vars

----------------------------------------------------------------------------
(* Properties of the stat engine, checked under Spec *)

\* C2: after every mutation 0 <= health <= max_health.
C2_HealthBounds ==
    /\ 0 <= character.health
    /\ character.health <= character.max_health

\* C3: gain_experience on a dead character raises CharacterDeadError and
\* leaves every field of the record as it was passed.
C3_DeadGainsNothing ==
    (call.op = "gain_experience" /\ is_character_dead(call.character))
        => (err = "CharacterDeadError" /\ character = call.character)

C3_Witness ==
    /\ call.op = "gain_experience"
    /\ call.character.health = 0
    /\ call.arg > 0
    /\ err = "CharacterDeadError"

\* C5: gain_experience on a living character never lowers the level, and a
\* gain that crosses exactly one threshold raises the level by one, leaves
\* the remainder old experience + amount - old level * 100 as experience and
\* restores health to max_health.
C5_PassedThreshold == call.character.level * LEVEL_XP_BASE

C5_CrossesOnce ==
    LET total == call.character.experience + call.arg
    IN /\ total >= C5_PassedThreshold
       /\ total - C5_PassedThreshold
              < (call.character.level + 1) * LEVEL_XP_BASE

C5_GainLevels ==
    (call.op = "gain_experience" /\ ~is_character_dead(call.character))
        => /\ err = "None"
           /\ character.level >= call.character.level
           /\ C5_CrossesOnce
                  => /\ character.level = call.character.level + 1
                     /\ character.experience
                            = call.character.experience + call.arg
                                  - C5_PassedThreshold
                     /\ character.health = character.max_health

C5_Witness ==
    /\ call.op = "gain_experience"
    /\ ~is_character_dead(call.character)
    /\ call.character.health < call.character.max_health
    /\ call.character.experience > 0
    /\ C5_CrossesOnce

\* C6: gold is never negative.
C6_GoldNonNegative == character.gold >= 0

C6_Witness ==
    /\ call.op = "add_gold"
    /\ call.arg < 0
    /\ err = "None"
    /\ character.gold = 0

\* C7: add_gold with gold + amount < 0 raises (ValueError is the exception
\* by which the code reports insufficient gold) and leaves the record
\* unchanged; add_gold(c, -c.gold) succeeds, leaves gold = 0 and returns
\* the new total; every other call succeeds and returns the new total.
C7_AddGoldBoundary ==
    call.op = "add_gold"
        => IF call.character.gold + call.arg < 0
           THEN err = "ValueError" /\ character = call.character
           ELSE /\ err = "None"
                /\ character.gold = call.character.gold + call.arg
                /\ ret = character.gold
                /\ call.arg = -call.character.gold => character.gold = 0

C7_Witness ==
    /\ call.op = "add_gold"
    /\ call.character.gold > 0
    /\ call.arg = -call.character.gold - 1
    /\ err = "ValueError"

\* C8: heal_character on a character with health = 0 either raises
\* CharacterDeadError or returns 0, and health stays 0.
C8_HealKeepsDead ==
    (call.op = "heal_character" /\ call.character.health = 0)
        => /\ character.health = 0
           /\ \/ err = "CharacterDeadError"
              \/ (err = "None" /\ ret = 0)

\* C9: revive_character on a living character returns False and changes
\* nothing; on a dead one it sets health to max_health // 2, changes no
\* other field and returns True.
C9_Revive ==
    call.op = "revive_character"
        => /\ err = "None"
           /\ IF call.character.health > 0
              THEN ret = FALSE /\ character = call.character
              ELSE /\ ret = TRUE
                   /\ character =
                          [call.character EXCEPT
                               !.health = call.character.max_health \div 2]

C9_Witness ==
    /\ call.op = "revive_character"
    /\ call.character.health = 0
    /\ ret = TRUE
    /\ character.health = 45

\* C10: heal_character on a living character with amount >= 0 sets health
\* to min(old health + amount, max_health) and returns new health - old
\* health, which is 0 at max_health.
C10_HealLiving ==
    (call.op = "heal_character" /\ call.character.health > 0 /\ call.arg >= 0)
        => /\ err = "None"
           /\ character.health
                  = Min(call.character.health + call.arg,
                        call.character.max_health)
           /\ character = [call.character EXCEPT !.health = character.health]
           /\ ret = character.health - call.character.health
           /\ 0 <= ret /\ ret <= call.arg
           /\ call.character.health = call.character.max_health => ret = 0

C10_Witness ==
    /\ call.op = "heal_character"
    /\ call.character.health > 0
    /\ call.arg > 0
    /\ call.character.health + call.arg > call.character.max_health
    /\ ret > 0
    /\ ret < call.arg

----------------------------------------------------------------------------
(* Properties of the scenario, checked under SpecScenario *)

C4_IsAragon ==
    /\ pc # "start"
    /\ character.name = Aragon
    /\ character.class = Warrior

C4_Prefix ==
    /\ pc = "created" => character.health = 120 /\ character.max_health = 120
    /\ pc = "dead" => character.health = 0
    /\ pc = "refused"
           => err = "CharacterDeadError" /\ character = call.character
    /\ pc = "revived" => ret = TRUE /\ character.health = 60

\* C4 as stated: Warrior "Aragon" is created with health = max_health = 120,
\* at health 0 gain_experience raises CharacterDeadError, revive_character
\* sets health to 60, and gain_experience(250) then yields level 3,
\* experience 50 and health = max_health.
C4_ScenarioAsStated ==
    C4_IsAragon
        => /\ C4_Prefix
           /\ (pc = "done" /\ call.arg = 250)
                  => /\ character.level = 3
                     /\ character.experience = 50
                     /\ character.health = character.max_health

\* C4 amended: as above, but gain_experience(250) yields level 2,
\* experience 150 and health = max_health = 130 (the 150 left after the
\* first level-up is below the level-2 threshold of 200).
C4_Scenario ==
    C4_IsAragon
        => /\ C4_Prefix
           /\ (pc = "done" /\ call.arg = 250)
                  => /\ ret = 2
                     /\ character.level = 2
                     /\ character.experience = 150
                     /\ character.max_health = 130
                     /\ character.health = character.max_health

C4_Witness ==
    /\ pc = "done"
    /\ character.name = Aragon
    /\ character.class = Warrior
    /\ call.op = "gain_experience"
    /\ call.arg = 250
    /\ call.character.health = 60
    /\ err = "None"

----------------------------------------------------------------------------
(* Properties of the persistence layer, checked under SpecSave *)

\* the save directory holds what save_character writes for the record
C1_Saved == save_character(character, files).files = files

C1_LoadedAfterSave ==
    /\ call.op = "load_character"
    /\ call.arg = character.name
    /\ C1_Saved

\* a text that survives strip() and holds no line break
C1_CleanText(s) == strip(s) = s /\ ~Contains(s, "\n")

C1_CleanList(list) ==
    \A i \in 1..Len(list) :
        /\ list[i] # <<>>
        /\ ~Contains(list[i], ",")
        /\ C1_CleanText(list[i])

C1_CleanRecord(c) ==
    /\ C1_CleanText(c.name)
    /\ C1_CleanList(c.inventory)
    /\ C1_CleanList(c.active_quests)
    /\ C1_CleanList(c.completed_quests)

\* C1 as stated: for any valid record c, load_character(c.name) after
\* save_character(c) returns a record equal to c.
C1_RoundTripAsStated ==
    C1_LoadedAfterSave => (err = "None" /\ ret = character)

\* C1 amended: the round trip holds for every record whose name has no line
\* break and no leading or trailing whitespace and whose item names are
\* non-empty and have no comma, no line break and no leading or trailing
\* whitespace.
C1_RoundTrip ==
    (C1_LoadedAfterSave /\ C1_CleanRecord(character))
        => (err = "None" /\ ret = character)

C1_Witness ==
    /\ C1_LoadedAfterSave
    /\ C1_CleanRecord(character)
    /\ Len(character.inventory) = 2
    /\ ret = character

----------------------------------------------------------------------------
(* Properties of the character factory, checked under SpecCreate *)

C11_BaseHealth(character_class) ==
    IF character_class = Warrior THEN 120
    ELSE IF character_class = Mage THEN 80
    ELSE IF character_class = Rogue THEN 90
    ELSE 100

\* C11: for each of the classes Warrior, Mage, Rogue and Cleric and any
\* name, create_character returns a record with health = max_health,
\* level = 1, experience = 0, gold = 100 and empty inventory, active_quests
\* and completed_quests.
C11_CreateValid ==
    (call.op = "create_character"
         /\ call.arg[2] \in {Warrior, Mage, Rogue, Cleric})
        => /\ err = "None"
           /\ character = ret
           /\ ret.name = call.arg[1]
           /\ ret.class = call.arg[2]
           /\ ret.health = ret.max_health
           /\ ret.max_health = C11_BaseHealth(call.arg[2])
           /\ ret.level = 1
           /\ ret.experience = 0
           /\ ret.gold = 100
           /\ ret.inventory = <<>>
           /\ ret.active_quests = <<>>
           /\ ret.completed_quests = <<>>

C11_Witness ==
    /\ call.op = "create_character"
    /\ call.arg = <<Luna, Cleric>>
    /\ err = "None"
    /\ ret.health = 100

\* C12: create_character with a class outside Warrior, Mage, Rogue, Cleric
\* raises InvalidCharacterClassError and returns no record.
C12_CreateInvalid ==
    (call.op = "create_character"
         /\ call.arg[2] \notin {Warrior, Mage, Rogue, Cleric})
        => /\ err = "InvalidCharacterClassError"
           /\ ret = NoCharacter
           /\ character = call.character

C12_Witness ==
    /\ call.op = "create_character"
    /\ call.arg[2] = Necromancer
    /\ call.character # NoCharacter
    /\ err = "InvalidCharacterClassError"

----------------------------------------------------------------------------
(* Properties of the save store, checked under SpecStore *)

\* sub occurs in s
C13_HasText(s, sub) ==
    \E i \in 1..(Len(s) - Len(sub) + 1) :
        SubSeq(s, i, i + Len(sub) - 1) = sub

C13_Elements(list) == {list[i] : i \in 1..Len(list)}

\* the save files are those of the names saved and not deleted since
C13_FilesOfSaved ==
    DOMAIN files = {SaveFileName(n) : n \in DOMAIN saved}

C13_Missing ==
    (call.op \in {"load_character", "delete_character"}
         /\ SaveFileName(call.arg) \notin DOMAIN call.files)
        => /\ err = "CharacterNotFoundError"
           /\ files = call.files

C13_Deleted ==
    (call.op = "delete_character"
         /\ SaveFileName(call.arg) \in DOMAIN call.files)
        => /\ err = "None"
           /\ ret = TRUE
           /\ call.arg \notin DOMAIN saved
           /\ \A f \in DOMAIN call.files \ {SaveFileName(call.arg)} :
                  f \in DOMAIN files /\ files[f] = call.files[f]

C13_Listed ==
    /\ Len(ret) = Cardinality(DOMAIN saved)
    /\ C13_Elements(ret) = DOMAIN saved
    /\ ~directory => ret = <<>>

C13_Loaded == err = "None" /\ ret = saved[call.arg] /\ files = call.files

----------------------------------------------------------------------------
(* Properties of loading a damaged file, checked under SpecDamaged *)

\* C14: load_character of a file that lacks a required key, holds a numeric
\* field that is not an integer or holds a line without the KEY: VALUE
\* separator raises InvalidSaveDataError and returns no record; every record
\* load_character returns passes validate_character_data.
C14_LoadRejects ==
    (call.op = "load_character" /\ call.arg = Aragon)
        => /\ pc \in {"missing_key", "bad_number", "bad_line"}
                  => (err = "InvalidSaveDataError" /\ ret = NoCharacter)
           /\ err = "None"
                  => /\ validate_character_data(ret)
                     /\ \A f \in NumericFields : ret[f] \in Int
                     /\ \A f \in ListFields : DOMAIN ret[f] = 1..Len(ret[f])
           /\ pc = "intact" => err = "None"

C14_Witness ==
    /\ call.op = "load_character"
    /\ call.arg = Aragon
    /\ pc = "bad_line"
    /\ err = "InvalidSaveDataError"

----------------------------------------------------------------------------
(* Further properties of the stat engine, checked under Spec *)

\* C15: no call lowers level or max_health, and level >= 1 and
\* max_health > 0 always hold.
C15_Monotonic ==
    /\ character.level >= 1
    /\ character.max_health > 0
    /\ call.op # "none"
           => /\ character.level >= call.character.level
              /\ character.max_health >= call.character.max_health

C15_Witness ==
    /\ call.op = "gain_experience"
    /\ character.level = call.character.level + 2
    /\ character.max_health = call.character.max_health + 20

\* C16: after each operation 0 <= experience < level * 100.
C16_ExperienceInThreshold ==
    /\ 0 <= character.experience
    /\ character.experience < character.level * 100

\* C18: no operation changes name, class, inventory, active_quests or
\* completed_quests; add_gold changes only gold; heal_character and
\* revive_character change only health; gain_experience never changes gold.
C18_Frame ==
    call.op # "none"
        => /\ character.name = call.character.name
           /\ character.class = call.character.class
           /\ character.inventory = call.character.inventory
           /\ character.active_quests = call.character.active_quests
           /\ character.completed_quests = call.character.completed_quests
           /\ call.op = "add_gold"
                  => character = [call.character EXCEPT
                                      !.gold = character.gold]
           /\ call.op \in {"heal_character", "revive_character"}
                  => character = [call.character EXCEPT
                                      !.health = character.health]
           /\ call.op = "gain_experience"
                  => character.gold = call.character.gold

C18_Witness ==
    /\ call.op = "gain_experience"
    /\ character.level > call.character.level
    /\ character.gold = 150
    /\ character.name = Luna

\* C19: the experience awarded by the gain_experience calls that returned
\* equals experience + 50 * level * (level - 1), and max_health, strength
\* and magic are the class's base values plus 10, 2 and 2 per level gained.
C19_Conservation ==
    /\ awarded = character.experience
                     + 50 * character.level * (character.level - 1)
    /\ character.max_health
           = valid_classes[character.class].health
                 + 10 * (character.level - 1)
    /\ character.strength
           = valid_classes[character.class].strength
                 + 2 * (character.level - 1)
    /\ character.magic
           = valid_classes[character.class].magic
                 + 2 * (character.level - 1)

C19_Witness ==
    /\ call.op = "gain_experience"
    /\ call.arg = 250
    /\ call.character.level = 1
    /\ character.level = 3
    /\ character.experience = 0
    /\ awarded = 300

----------------------------------------------------------------------------
(* Properties of the level-up loop, checked under SpecLoop *)

\* C17: gain_experience returns for every living character and every
\* amount: each pass of the loop lowers experience and raises the threshold
\* level * 100, and the call returns what the loop computes.
C17_Terminates ==
    /\ <>(pc = "returned")
    /\ [][(pc = "loop" /\ pc' = "loop")
              => /\ character'.experience < character.experience
                 /\ character'.level * LEVEL_XP_BASE
                        > character.level * LEVEL_XP_BASE]_progress
    /\ [](pc = "returned"
              => /\ ~xp_threshold_met(character)
                 /\ character
                        = gain_experience(call.character, call.arg).character)

C17_Witness ==
    /\ pc = "returned"
    /\ ~is_character_dead(call.character)
    /\ call.arg = 1000
    /\ character.level >= call.character.level + 3

----------------------------------------------------------------------------
(* Properties of splitting an award, checked under SpecSplit *)

\* C20: for a living character and amounts a, b >= 0, gain_experience(a)
\* followed by gain_experience(b) leaves the record as a single
\* gain_experience(a + b) does.
C20_Whole ==
    gain_experience(call.previous.character, call.previous.arg + call.arg)

C20_Splitting ==
    pc = "second"
        => /\ ~is_character_dead(call.previous.character)
           /\ err = "None"
           /\ character = C20_Whole.character
           /\ ret = C20_Whole.ret
           /\ awarded = call.previous.arg + call.arg

C20_Witness ==
    /\ pc = "second"
    /\ call.previous.arg = 250
    /\ call.arg = 150
    /\ call.character.level > call.previous.character.level
    /\ character.level > call.character.level
    /\ call.previous.character.health < call.previous.character.max_health

=============================================================================
